---- MODULE Spec2Model ----
(***************************************************************************)
(* Model of the quotation verifier (class TruthVerifier and its helpers)   *)
(* of the channelbot repository.  Text is a sequence of one-character      *)
(* strings; a JavaScript Set or Map is a sequence in insertion order.      *)
(***************************************************************************)
EXTENDS FiniteSets, Integers, Naturals, Sequences, TLC

(* ------------------------------------------------------------------ *)
(* Characters                                                          *)
(* ------------------------------------------------------------------ *)
UpperSeq ==
  <<"A","B","C","D","E","F","G","H","I","J","K","L","M",
    "N","O","P","Q","R","S","T","U","V","W","X","Y","Z">>

LowerSeq ==
  <<"a","b","c","d","e","f","g","h","i","j","k","l","m",
    "n","o","p","q","r","s","t","u","v","w","x","y","z">>

Digits == {"0","1","2","3","4","5","6","7","8","9"}

\* String.prototype.toLowerCase on one character
ToLowerChar(c) ==
  IF \E i \in 1..26 : UpperSeq[i] = c
  THEN LowerSeq[CHOOSE i \in 1..26 : UpperSeq[i] = c]
  ELSE c

\* the regular expression class \s
IsSpace(c) == c \in {" ", "\t", "\n"}

\* the regular expression class \w
IsWordChar(c) ==
  \/ \E i \in 1..26 : c = UpperSeq[i] \/ c = LowerSeq[i]
  \/ c \in Digits
  \/ c = "_"

\* the three .replace calls that undo common OCR misreadings
OcrFixChar(c) ==
  IF c = "|" THEN "i" ELSE IF c = "0" THEN "o" ELSE IF c = "1" THEN "l" ELSE c

(* ------------------------------------------------------------------ *)
(* normalizeText                                                       *)
(* ------------------------------------------------------------------ *)
HasAt(s, i, lit) ==
  /\ i + Len(lit) - 1 <= Len(s)
  /\ \A k \in 1..Len(lit) : s[i + k - 1] = lit[k]

\* last index of the run of non-whitespace characters that starts at i
RECURSIVE RunEnd(_, _)
RunEnd(s, i) ==
  IF i < Len(s) /\ ~IsSpace(s[i + 1]) THEN RunEnd(s, i + 1) ELSE i

\* /https?:\/\/[^\s]+/ tried at position i: index of the last matched
\* character, 0 when there is no match there
UrlMatchEnd(s, i) ==
  IF ~HasAt(s, i, <<"h","t","t","p">>) THEN 0
  ELSE IF /\ HasAt(s, i + 4, <<"s",":","/","/">>)
          /\ i + 8 <= Len(s)
          /\ ~IsSpace(s[i + 8])
       THEN RunEnd(s, i + 8)
  ELSE IF /\ HasAt(s, i + 4, <<":","/","/">>)
          /\ i + 7 <= Len(s)
          /\ ~IsSpace(s[i + 7])
       THEN RunEnd(s, i + 7)
  ELSE 0

\* .replace(/https?:\/\/[^\s]+/g, '')
RECURSIVE RemoveUrlsFrom(_, _)
RemoveUrlsFrom(s, i) ==
  IF i > Len(s) THEN <<>>
  ELSE IF UrlMatchEnd(s, i) > 0 THEN RemoveUrlsFrom(s, UrlMatchEnd(s, i) + 1)
  ELSE <<s[i]>> \o RemoveUrlsFrom(s, i + 1)

\* .replace(/\s+/g, ' ')
RECURSIVE CollapseFrom(_, _)
CollapseFrom(s, i) ==
  IF i > Len(s) THEN <<>>
  ELSE IF IsSpace(s[i])
       THEN IF i > 1 /\ IsSpace(s[i - 1])
            THEN CollapseFrom(s, i + 1)
            ELSE <<" ">> \o CollapseFrom(s, i + 1)
  ELSE <<s[i]>> \o CollapseFrom(s, i + 1)

\* String.prototype.trim
Trim(s) ==
  IF \A i \in 1..Len(s) : IsSpace(s[i]) THEN <<>>
  ELSE LET a == CHOOSE i \in 1..Len(s) :
                  ~IsSpace(s[i]) /\ \A j \in 1..(i - 1) : IsSpace(s[j])
           b == CHOOSE i \in 1..Len(s) :
                  ~IsSpace(s[i]) /\ \A j \in (i + 1)..Len(s) : IsSpace(s[j])
       IN SubSeq(s, a, b)

\* variant: .trim() is called before the special characters are replaced
normalizeText_TrimEarly(text) ==
  LET lowered  == [i \in 1..Len(text) |-> ToLowerChar(text[i])]
      fixed    == [i \in 1..Len(lowered) |-> OcrFixChar(lowered[i])]
      noUrls   == Trim(RemoveUrlsFrom(fixed, 1))
      cleaned  == [i \in 1..Len(noUrls) |->
                     IF IsWordChar(noUrls[i]) \/ IsSpace(noUrls[i])
                     THEN noUrls[i] ELSE " "]
  IN CollapseFrom(cleaned, 1)

normalizeText(text) ==
  LET lowered  == [i \in 1..Len(text) |-> ToLowerChar(text[i])]
      fixed    == [i \in 1..Len(lowered) |-> OcrFixChar(lowered[i])]
      noUrls   == RemoveUrlsFrom(fixed, 1)
      cleaned  == [i \in 1..Len(noUrls) |->
                     IF IsWordChar(noUrls[i]) \/ IsSpace(noUrls[i])
                     THEN noUrls[i] ELSE " "]
      collapsed == CollapseFrom(cleaned, 1)
  IN Trim(collapsed)

(* ------------------------------------------------------------------ *)
(* extractSignificantWords                                             *)
(* ------------------------------------------------------------------ *)
STOP_WORDS == {
    <<"a">>, <<"a","n">>, <<"t","h","e">>, <<"a","n","d">>, <<"o","r">>, <<"b","u","t">>,
    <<"i","n">>, <<"o","n">>, <<"a","t">>, <<"t","o">>, <<"f","o","r">>, <<"o","f">>,
    <<"w","i","t","h">>, <<"b","y">>, <<"f","r","o","m">>, <<"i","s">>, <<"a","r","e">>,
    <<"w","a","s">>, <<"w","e","r","e">>, <<"b","e">>, <<"b","e","e","n">>,
    <<"b","e","i","n","g">>, <<"h","a","v","e">>, <<"h","a","s">>, <<"h","a","d">>, <<"d","o">>,
    <<"d","o","e","s">>, <<"d","i","d">>, <<"w","i","l","l">>, <<"w","o","u","l","d">>,
    <<"c","o","u","l","d">>, <<"s","h","o","u","l","d">>, <<"m","a","y">>, <<"m","i","g","h","t">>,
    <<"m","u","s","t">>, <<"s","h","a","l","l">>, <<"c","a","n">>, <<"t","h","i","s">>,
    <<"t","h","a","t">>, <<"t","h","e","s","e">>, <<"t","h","o","s","e">>, <<"i">>,
    <<"y","o","u">>, <<"h","e">>, <<"s","h","e">>, <<"i","t">>, <<"w","e">>, <<"t","h","e","y">>,
    <<"w","h","a","t">>, <<"w","h","i","c","h">>, <<"w","h","o">>, <<"w","h","o","m">>,
    <<"w","h","o","s","e">>, <<"w","h","e","r","e">>, <<"w","h","e","n">>, <<"w","h","y">>,
    <<"h","o","w">>, <<"a","l","l">>, <<"e","a","c","h">>, <<"e","v","e","r","y">>,
    <<"b","o","t","h">>, <<"f","e","w">>, <<"m","o","r","e">>, <<"m","o","s","t">>,
    <<"o","t","h","e","r">>, <<"s","o","m","e">>, <<"s","u","c","h">>, <<"n","o">>,
    <<"n","o","t">>, <<"o","n","l","y">>, <<"s","a","m","e">>, <<"s","o">>, <<"t","h","a","n">>,
    <<"t","o","o">>, <<"v","e","r","y">>, <<"j","u","s","t">>, <<"a","s">>, <<"i","f">>,
    <<"i","n","t","o">>, <<"t","h","r","o","u","g","h">>, <<"d","u","r","i","n","g">>,
    <<"b","e","f","o","r","e">>, <<"a","f","t","e","r">>, <<"a","b","o","v","e">>,
    <<"b","e","l","o","w">>, <<"b","e","t","w","e","e","n">>, <<"u","n","d","e","r">>,
    <<"a","g","a","i","n">>, <<"f","u","r","t","h","e","r">>, <<"t","h","e","n">>,
    <<"o","n","c","e">>, <<"h","e","r","e">>, <<"t","h","e","r","e">>, <<"a","n","y">>,
    <<"o","u","r">>, <<"o","u","t">>, <<"u","p">>, <<"d","o","w","n">>, <<"o","f","f">>,
    <<"o","v","e","r">>, <<"o","w","n">>, <<"a","b","o","u","t">>, <<"a","g","a","i","n","s","t">>,
    <<"b","e","c","a","u","s","e">>, <<"u","n","t","i","l">>, <<"w","h","i","l","e">>,
    <<"a","l","s","o">>, <<"e","v","e","n">>, <<"g","e","t">>, <<"g","o","t">>, <<"g","o">>,
    <<"g","o","i","n","g">>, <<"m","a","k","e">>, <<"m","a","d","e">>, <<"n","o","w">>,
    <<"w","e","l","l">>, <<"w","a","y">>, <<"b","a","c","k">>, <<"s","t","i","l","l">>,
    <<"s","i","n","c","e">>, <<"a","m">>, <<"m","y">>, <<"y","o","u","r">>, <<"h","i","s">>,
    <<"h","e","r">>, <<"i","t","s">>, <<"t","h","e","i","r">>, <<"m","e">>, <<"h","i","m">>,
    <<"u","s">>, <<"t","h","e","m">>
}

MIN_WORD_LENGTH == 4

\* String.prototype.split(' ')
RECURSIVE SplitFrom(_, _, _)
SplitFrom(s, i, cur) ==
  IF i > Len(s) THEN <<cur>>
  ELSE IF s[i] = " " THEN <<cur>> \o SplitFrom(s, i + 1, <<>>)
  ELSE SplitFrom(s, i + 1, Append(cur, s[i]))

InSeq(x, q) == \E i \in 1..Len(q) : q[i] = x

\* Set.prototype.add: a Set keeps its members in insertion order
SetAdd(q, x) == IF InSeq(x, q) THEN q ELSE Append(q, x)

RECURSIVE SignificantFrom(_, _, _)
SignificantFrom(words, i, significant) ==
  IF i > Len(words) THEN significant
  ELSE IF Len(words[i]) >= MIN_WORD_LENGTH /\ words[i] \notin STOP_WORDS
       THEN SignificantFrom(words, i + 1, SetAdd(significant, words[i]))
  ELSE SignificantFrom(words, i + 1, significant)

extractSignificantWords(normalizedText) ==
  SignificantFrom(SplitFrom(normalizedText, 1, <<>>), 1, <<>>)

(* ------------------------------------------------------------------ *)
(* compareTwoStrings of the imported string-similarity package, whose  *)
(* source is not part of the repository: the Dice coefficient over     *)
(* character bigrams of section 4.5 of the design.  A similarity is an *)
(* exact fraction in lowest terms.                                     *)
(* ------------------------------------------------------------------ *)
RECURSIVE GCD(_, _)
GCD(a, b) == IF b = 0 THEN a ELSE GCD(b, a % b)

Frac(n, d) ==
  IF n = 0 THEN [num |-> 0, den |-> 1]
  ELSE [num |-> n \div GCD(n, d), den |-> d \div GCD(n, d)]

Zero == Frac(0, 1)

FracGT(x, y) == x.num * y.den > y.num * x.den
FracGE(x, y) == x.num * y.den >= y.num * x.den

Bigrams(s) == [i \in 1..(IF Len(s) < 2 THEN 0 ELSE Len(s) - 1) |-> <<s[i], s[i + 1]>>]

Count(bs, g) == Cardinality({i \in 1..Len(bs) : bs[i] = g})

Min(a, b) == IF a < b THEN a ELSE b

RECURSIVE SumOver(_, _, _)
SumOver(S, a, b) ==
  IF S = {} THEN 0
  ELSE LET g == CHOOSE x \in S : TRUE
       IN Min(Count(a, g), Count(b, g)) + SumOver(S \ {g}, a, b)

compareTwoStrings(first, second) ==
  LET a == Bigrams(first)
      b == Bigrams(second)
      intersectionSize == SumOver({a[i] : i \in 1..Len(a)}, a, b)
  IN IF Len(a) + Len(b) = 0 THEN Zero
     ELSE Frac(2 * intersectionSize, Len(a) + Len(b))

(* ------------------------------------------------------------------ *)
(* Texts used as corpus contents and as queries                        *)
(* ------------------------------------------------------------------ *)
TxtWallPollTax == <<"W","a","l","l"," ","p","o","l","l"," ","t","a","x">>

TxtPoll == <<"p","o","l","l">>

TxtFakeNews == <<"F","a","k","e"," ","n","e","w","s"," ","h","t","t","p",":","/","/","t",".","c","o","/","x">>

TxtTheWin == <<"T","h","e"," ","w","i","n">>

TxtPollTax == <<"p","o","l","l"," ","t","a","x">>

TxtWall == <<"w","a","l","l">>

QEmpty == <<>>

QStopOnly == <<"t","h","e"," ","w","|","l","l"," "," ","w","i","n","!">>

QNoisyExact == <<"W","A","1","1"," "," ","p","0","l","l",","," ","t","a","x","!">>

QThreshold == <<"w","a","l","l"," ","p","o","l","k">>

QWeak == <<"W","a","l","l">>

QFakeNews == <<"f","a","k","e"," ","n","e","w","s">>

QPollTax == <<"P","o","l","l","\n","t","a","x">>

QUnknown == <<"p","o","l","k"," ","h","t","t","p","s",":","/","/","w","a","l","l">>

QFake == <<"f","a","k","e">>

QPollWall == <<"p","o","l","l"," ","w","a","l","l">>

Queries ==
  {QEmpty, QStopOnly, QNoisyExact, QThreshold, QWeak, QFakeNews, QFake,
   QPollTax, QUnknown, QPollWall}

(* ------------------------------------------------------------------ *)
(* Bounds and program constants                                        *)
(* ------------------------------------------------------------------ *)
\* number of load() calls issued on the verifier
MaxCalls == 2

\* records of the large corpus beyond the candidate cap
ExtraRecords == 1

\* pieces a text handed to normalizeText is put together from
MaxPieces == 4

\* times normalizeText is applied to its own result
MaxPasses == 2

\* .slice(0, 50)
MAX_CANDIDATES == 50

\* SIMILARITY_THRESHOLD = 0.7
SIMILARITY_THRESHOLD == [num |-> 7, den |-> 10]

Calls == 1..MaxCalls

(* ------------------------------------------------------------------ *)
(* The corpus file /tmp/trump/trump.json                               *)
(* ------------------------------------------------------------------ *)
\* a TruthPost; the pass-through fields are not modelled
Post(id, content) == [id |-> id, content |-> content]

\* a parsed record that has no content property
NoContentPost(id) == [id |-> id]

Json(records) == [kind |-> "json", records |-> records]

FileA ==
  Json(<<Post(<<"a", 0>>, TxtWallPollTax),
         Post(<<"a", 1>>, TxtPoll),
         Post(<<"a", 2>>, TxtFakeNews)>>)

FileB ==
  Json(<<Post(<<"b", 0>>, TxtTheWin),
         Post(<<"b", 1>>, TxtPollTax)>>)

\* one record with "poll", two records with the same content "wall"
FileC ==
  Json(<<Post(<<"f", 0>>, TxtPoll),
         Post(<<"f", 1>>, TxtWall),
         Post(<<"f", 2>>, TxtWall)>>)

FileNoContent ==
  Json(<<Post(<<"c", 0>>, TxtWall),
         NoContentPost(<<"c", 1>>)>>)

FileBig ==
  Json([i \in 1..(MAX_CANDIDATES + ExtraRecords) |->
          IF i <= MAX_CANDIDATES
          THEN Post(<<"d", i - 1>>, TxtWallPollTax)
          ELSE Post(<<"d", i - 1>>, TxtWall)])

\* the large corpus with the short record first
FileBigFirst ==
  Json([i \in 1..(MAX_CANDIDATES + ExtraRecords) |->
          IF i = 1
          THEN Post(<<"e", i - 1>>, TxtWall)
          ELSE Post(<<"e", i - 1>>, TxtWallPollTax)])

\* readFile rejects
FileUnreadable == [kind |-> "unreadable"]

\* JSON.parse throws
FileUnparsable == [kind |-> "unparsable"]

\* the versions of the corpus file of a small deployment
SmallFiles ==
  {FileA, FileB, FileC, FileNoContent, FileUnreadable, FileUnparsable}

\* the versions of the corpus file of a deployment with more records than
\* the candidate cap
BigFiles == {FileBig, FileBigFirst}

\* the versions the environment can replace version f by
Versions(f) == IF f \in BigFiles THEN BigFiles ELSE SmallFiles

(* ------------------------------------------------------------------ *)
(* State                                                               *)
(* ------------------------------------------------------------------ *)
VARIABLES
  file,          \* what a read of TRUMP_JSON_PATH yields now
  posts,         \* TruthVerifier.posts
  indexedPosts,  \* TruthVerifier.indexedPosts
  wordIndex,     \* TruthVerifier.wordIndex, entries in insertion order
  loaded,        \* TruthVerifier.loaded
  pc,            \* position of each load() call
  ret,           \* what the findMatch call of the last step returned
  last           \* the verdict a caller has kept from an earlier findMatch call

verifierVars == <<file, posts, indexedPosts, wordIndex, loaded, pc, ret, last>>

VARIABLES
  now,                 \* what Date.now() returns
  moderationQueue,     \* index.ts moderationQueue
  lastModerationTime,  \* index.ts lastModerationTime
  timeout,             \* index.ts timeout: null or the timer set last
  arrived,             \* the messages the bot has received, in order
  dispatched           \* the calls of processModerationRequest, in order

botVars ==
  <<now, moderationQueue, lastModerationTime, timeout, arrived, dispatched>>

VARIABLES
  admins,      \* Telegram.admins: for each user the timer set last, if any
  timers,      \* for each user the minutes left on the timers that run
  granted,     \* the user was promoted last, not demoted
  sincePost,   \* minutes since the user's last /post, up to the timeout
  pendingMessageContexts,  \* Telegram.pendingMessageContexts
  received,    \* the number of messages each user has sent to the bot
  cancelPressed,  \* the user pressed 'cancel' after the last message
  inFlight,    \* the 'send' and 'cancel' handlers that wait at an await
  posted,      \* the requests that put a message on the channel, in order
  nextChannelId,  \* message_id of the next message on the channel
  dbDirs,      \* the directories under the MessageDatabase path
  dbFiles,     \* the files under the MessageDatabase path, with content
  saves,       \* the saveChannelMessageId calls that have written, in order
  edits        \* the requests that edit a message on the channel, in order

postVars == <<admins, timers, granted, sincePost>>

forwardVars ==
  <<pendingMessageContexts, received, cancelPressed, inFlight, posted,
    nextChannelId, dbDirs, dbFiles, saves, edits>>

telegramVars == <<postVars, forwardVars>>

appVars == <<botVars, telegramVars>>

vars == <<verifierVars, appVars>>

index == <<posts, indexedPosts, wordIndex, loaded>>

NoReturn == [kind |-> "none"]

NullPost == [kind |-> "null"]

UndefinedPost == [kind |-> "undefined"]

(* ------------------------------------------------------------------ *)
(* load(): index build                                                 *)
(* ------------------------------------------------------------------ *)
HasWord(wi, word) == \E k \in 1..Len(wi) : wi[k].word = word

\* wordIndex.get(word)
GetPostings(wi, word) ==
  IF HasWord(wi, word)
  THEN wi[CHOOSE k \in 1..Len(wi) : wi[k].word = word].postings
  ELSE <<>>

\* if (!has(word)) set(word, []);  get(word).push(i)
PushPosting(wi, word, i) ==
  IF HasWord(wi, word)
  THEN [k \in 1..Len(wi) |->
          IF wi[k].word = word
          THEN [word |-> word, postings |-> Append(wi[k].postings, i)]
          ELSE wi[k]]
  ELSE Append(wi, [word |-> word, postings |-> <<i>>])

RECURSIVE PushWords(_, _, _, _)
PushWords(wi, words, k, i) ==
  IF k > Len(words) THEN wi
  ELSE PushWords(PushPosting(wi, words[k], i), words, k + 1, i)

\* the entry pushed onto indexedPosts for the record at position i
IndexedPost(post, i) ==
  LET normalizedContent == normalizeText(post.content)
  IN [index |-> i,
      words |-> extractSignificantWords(normalizedContent),
      normalizedContent |-> normalizedContent]

\* variant: a record without significant words gets no indexedPosts entry
IndexRecord_SkipWordless(records, i, st) ==
  IF ~st.ok THEN st
  ELSE IF "content" \notin DOMAIN records[i + 1]
       THEN [st EXCEPT !.ok = FALSE]
  ELSE LET entry == IndexedPost(records[i + 1], i)
       IN [indexedPosts |-> IF Len(entry.words) = 0 THEN st.indexedPosts
                            ELSE Append(st.indexedPosts, entry),
           wordIndex |-> PushWords(st.wordIndex, entry.words, 1, i),
           ok |-> TRUE]

\* one iteration of the for loop of load(), for position i; ok turns
\* FALSE when normalizeText throws on a record without content, and the
\* collections then keep what the loop had already pushed
IndexRecord(records, i, st) ==
  IF ~st.ok THEN st
  ELSE IF "content" \notin DOMAIN records[i + 1]
       THEN [st EXCEPT !.ok = FALSE]
  ELSE LET entry == IndexedPost(records[i + 1], i)
       IN [indexedPosts |-> Append(st.indexedPosts, entry),
           wordIndex |-> PushWords(st.wordIndex, entry.words, 1, i),
           ok |-> TRUE]

\* the iterations for positions lo .. hi - 1 in ascending order; once an
\* iteration has thrown, no later one runs (the range is halved, and the
\* lower half evaluated first, to keep the evaluation shallow)
RECURSIVE BuildRange(_, _, _, _)
BuildRange(records, lo, hi, st) ==
  IF hi <= lo THEN st
  ELSE IF hi = lo + 1 THEN IndexRecord(records, lo, st)
  ELSE LET mid == (lo + hi) \div 2
           left == BuildRange(records, lo, mid, st)
       IN IF ~left.ok THEN left ELSE BuildRange(records, mid, hi, left)

\* the for loop of load() over all records
BuildIndex(records, ip, wi) ==
  BuildRange(records, 0, Len(records),
             [indexedPosts |-> ip, wordIndex |-> wi, ok |-> TRUE])

(* ------------------------------------------------------------------ *)
(* findCandidates and findMatch                                        *)
(* ------------------------------------------------------------------ *)
\* candidateScores.set(idx, (candidateScores.get(idx) || 0) + 1)
Bump(cs, idx) ==
  IF \E k \in 1..Len(cs) : cs[k].index = idx
  THEN [k \in 1..Len(cs) |->
          IF cs[k].index = idx
          THEN [index |-> idx, count |-> cs[k].count + 1]
          ELSE cs[k]]
  ELSE Append(cs, [index |-> idx, count |-> 1])

\* for (const idx of postIndices), elements lo .. hi in order (the range
\* is halved, and the lower half evaluated first, to keep the evaluation
\* shallow; the map is not empty after a non-empty lower half)
RECURSIVE BumpAll(_, _, _, _)
BumpAll(cs, postIndices, lo, hi) ==
  IF hi < lo THEN cs
  ELSE IF hi = lo THEN Bump(cs, postIndices[lo])
  ELSE LET mid == (lo + hi) \div 2
           left == BumpAll(cs, postIndices, lo, mid)
       IN IF Len(left) > 0 THEN BumpAll(left, postIndices, mid + 1, hi) ELSE left

RECURSIVE CandidatesFrom(_, _, _)
CandidatesFrom(queryWords, w, cs) ==
  IF w > Len(queryWords) THEN cs
  ELSE LET postIndices == GetPostings(wordIndex, queryWords[w])
       IN CandidatesFrom(queryWords, w + 1,
                         BumpAll(cs, postIndices, 1, Len(postIndices)))

findCandidates(queryWords) == CandidatesFrom(queryWords, 1, <<>>)

\* variant: the comparator is reversed (a[1] - b[1])
SortByCount_Ascending(cs) ==
  LET n == Len(cs)
      rank == [i \in 1..n |->
                 1 + Cardinality({j \in 1..n :
                       \/ cs[j].count < cs[i].count
                       \/ cs[j].count = cs[i].count /\ j < i})]
  IN [k \in 1..n |-> cs[CHOOSE i \in 1..n : rank[i] = k]]

\* variant: the sort is not stable, equal counts come out in reverse
SortByCount_Unstable(cs) ==
  LET n == Len(cs)
      rank == [i \in 1..n |->
                 1 + Cardinality({j \in 1..n :
                       \/ cs[j].count > cs[i].count
                       \/ cs[j].count = cs[i].count /\ j > i})]
  IN [k \in 1..n |-> cs[CHOOSE i \in 1..n : rank[i] = k]]

\* .sort((a, b) => b[1] - a[1]): stable, by count descending
SortByCount(cs) ==
  LET n == Len(cs)
      rank == [i \in 1..n |->
                 1 + Cardinality({j \in 1..n :
                       \/ cs[j].count > cs[i].count
                       \/ cs[j].count = cs[i].count /\ j < i})]
  IN [k \in 1..n |-> cs[CHOOSE i \in 1..n : rank[i] = k]]

\* .slice(0, 50)
Slice(s, n) == SubSeq(s, 1, Min(n, Len(s)))

sortedCandidates(ocrWords) ==
  Slice(SortByCount(findCandidates(ocrWords)), MAX_CANDIDATES)

Similarity(normalizedOcr, postIndex) ==
  compareTwoStrings(normalizedOcr, indexedPosts[postIndex + 1].normalizedContent)

NoBest == [index |-> -1, similarity |-> Zero]

\* variant: the comparison is reversed, so the loop keeps the least similar
Better_Reversed(similarity, bestMatch) ==
  bestMatch = NoBest \/ FracGT(bestMatch.similarity, similarity)

\* variant: the comparison is >=, so the last of several equal scores wins
Better_NonStrict(similarity, bestMatch) ==
  bestMatch = NoBest \/ FracGE(similarity, bestMatch.similarity)

\* if (!bestMatch || similarity > bestMatch.similarity) bestMatch = ...
Better(similarity, bestMatch) ==
  bestMatch = NoBest \/ FracGT(similarity, bestMatch.similarity)

\* one iteration of the scoring loop
ScoreCandidate(postIndex, normalizedOcr, bestMatch) ==
  LET similarity == Similarity(normalizedOcr, postIndex)
  IN IF Better(similarity, bestMatch)
     THEN [index |-> postIndex, similarity |-> similarity]
     ELSE bestMatch

\* for (const [postIndex] of sortedCandidates), elements lo .. hi in order
\* (the range is halved, and the lower half evaluated first, to keep the
\* evaluation shallow; bestMatch is set after a non-empty lower half)
RECURSIVE ScanRange(_, _, _, _, _)
ScanRange(cands, lo, hi, normalizedOcr, bestMatch) ==
  IF hi < lo THEN bestMatch
  ELSE IF hi = lo THEN ScoreCandidate(cands[lo].index, normalizedOcr, bestMatch)
  ELSE LET mid == (lo + hi) \div 2
           left == ScanRange(cands, lo, mid, normalizedOcr, bestMatch)
       IN IF left # NoBest
          THEN ScanRange(cands, mid + 1, hi, normalizedOcr, left)
          ELSE left

\* this.posts[i]
PostAt(i) == IF i < Len(posts) THEN posts[i + 1] ELSE UndefinedPost

\* variant: the threshold comparison is strict
Qualifies_Strict(similarity) == FracGT(similarity, SIMILARITY_THRESHOLD)

\* bestMatch.similarity >= SIMILARITY_THRESHOLD
Qualifies(similarity) == FracGE(similarity, SIMILARITY_THRESHOLD)

Verdict(ocrText, verified, post, similarity, scored) ==
  [kind |-> "findMatch", ocrText |-> ocrText, status |-> "ok",
   verified |-> verified, post |-> post, similarity |-> similarity,
   scored |-> scored]

Thrown(ocrText, error) ==
  [kind |-> "findMatch", ocrText |-> ocrText, status |-> "error", error |-> error]

findMatchResult(ocrText) ==
  IF ~loaded THEN Thrown(ocrText, "NotLoaded")
  ELSE
    LET normalizedOcr == normalizeText(ocrText)
        ocrWords == extractSignificantWords(normalizedOcr)
        cands == sortedCandidates(ocrWords)
    IN IF Len(ocrWords) = 0 THEN Verdict(ocrText, FALSE, NullPost, Zero, 0)
       ELSE IF Len(cands) = 0 THEN Verdict(ocrText, FALSE, NullPost, Zero, 0)
       ELSE IF \E k \in 1..Len(cands) : cands[k].index >= Len(indexedPosts)
            THEN Thrown(ocrText, "TypeError")
       ELSE LET bestMatch == ScanRange(cands, 1, Len(cands), normalizedOcr, NoBest)
            IN Verdict(ocrText, Qualifies(bestMatch.similarity),
                       PostAt(bestMatch.index), bestMatch.similarity, Len(cands))

(* ------------------------------------------------------------------ *)
(* looksLikeTrumpPost                                                  *)
(* ------------------------------------------------------------------ *)
CapHandle == <<"S","o","m","e"," ","t","e","x","t"," ","@","r","e","a","l","D","o","n","a","l","d","T","r","u","m","p"," ","m","o","r","e"," ","t","e","x","t">>

CapName == <<"D","O","N","A","L","D"," ","J","."," ","T","R","U","M","P">>

CapNameNoDot == <<"b","y"," ","D","o","n","a","l","d"," ","J"," ","T","r","u","m","p">>

CapOther == <<"D","o","n","a","l","d"," ","T","r","u","m","p"," ","s","a","y","s"," ","h","i">>

CapCutHandle == <<"@","r","e","a","l","D","o","n","a","l","d","T","r","u","m">>

CapNoSpace == <<"d","o","n","a","l","d"," ","j",".","t","r","u","m","p">>

\* texts handed to looksLikeTrumpPost
Captions ==
  {CapHandle, CapName, CapNameNoDot, CapOther, CapCutHandle, CapNoSpace, QEmpty}

\* the three literals looked for
TRUMP_MARKERS ==
  {<<"@","r","e","a","l","d","o","n","a","l","d","t","r","u","m","p">>,
   <<"d","o","n","a","l","d"," ","j","."," ","t","r","u","m","p">>,
   <<"d","o","n","a","l","d"," ","j"," ","t","r","u","m","p">>}

\* String.prototype.includes
Includes(s, lit) == \E i \in 1..Len(s) : HasAt(s, i, lit)

\* variant: the text is searched without being lowercased
looksLikeTrumpPostResult_CaseSensitive(text) ==
  \E marker \in TRUMP_MARKERS : Includes(text, marker)

looksLikeTrumpPostResult(text) ==
  LET lowerText == [i \in 1..Len(text) |-> ToLowerChar(text[i])]
  IN \E marker \in TRUMP_MARKERS : Includes(lowerText, marker)

(* ------------------------------------------------------------------ *)
(* Actions                                                             *)
(* ------------------------------------------------------------------ *)
InitVerifier ==
  /\ posts = <<>>
  /\ indexedPosts = <<>>
  /\ wordIndex = <<>>
  /\ loaded = FALSE
  /\ pc = [c \in Calls |-> "idle"]
  /\ ret = NoReturn
  /\ last = NoReturn

(* ------------------------------------------------------------------ *)
(* index.ts: the moderation queue                                      *)
(* ------------------------------------------------------------------ *)
moderationThrottlingSeconds == 1

\* moderationThrottlingSeconds * 1000
ThrottlingMs == moderationThrottlingSeconds * 1000

\* the clock is observed in steps of this many milliseconds
TickMs == 500

\* messages the bot receives
MaxRequests == 4

\* clock steps during which messages arrive
ArrivalTicks == 3

\* Date.now() when the bot starts: far more than one throttling window
\* after lastModerationTime = 0
StartTime == 2 * ThrottlingMs

\* clock steps needed for the throttling window to pass
WindowTicks == ThrottlingMs \div TickMs + 1

ArrivalDeadline == StartTime + ArrivalTicks * TickMs

\* the clock value at which the model stops the clock: late enough for
\* every message that arrived to be dispatched
MaxTime == ArrivalDeadline + (MaxRequests + 1) * WindowTicks * TickMs

AllowedChat == 1

OtherChat == 2

ALLOWED_CHAT_IDS == {AllowedChat}

ChatIds == {AllowedChat, OtherChat}

\* message.text of a text message
MessageTexts == {"", "hi"}

NullTimeout == [kind |-> "null"]

\* the Timeout object setTimeout returns: armed until it fires or is cleared
Timer(due) == [kind |-> "timer", due |-> due, armed |-> TRUE]

ModerationRequest(messageId, chatId, text) ==
  [messageId |-> messageId, chatId |-> chatId, text |-> text]

\* variant: the chat id is not looked at
Allowed_AnyChat(chatId) == chatId \in ChatIds

\* ALLOWED_CHAT_IDS.includes(request.chatId)
Allowed(chatId) == chatId \in ALLOWED_CHAT_IDS

\* variant: clearTimeout is called but the handle is kept
ClearTimeout_KeepHandle(t) ==
  IF t # NullTimeout THEN [t EXCEPT !.armed = FALSE] ELSE t

\* if (timeout) { clearTimeout(timeout); timeout = null; }
ClearTimeout(t) == NullTimeout

\* variant: the comparison is >=
ThrottleOpen_AtWindow(t, lastTime) == t - lastTime >= ThrottlingMs

\* now - lastModerationTime > moderationThrottlingSeconds * 1000
ThrottleOpen(t, lastTime) == t - lastTime > ThrottlingMs

\* variant: the request is taken with pop() from the end of the queue
Shift_Pop(queue) ==
  [request |-> queue[Len(queue)], queue |-> SubSeq(queue, 1, Len(queue) - 1)]

\* moderationQueue.shift() on a queue that is not empty
Shift(queue) == [request |-> Head(queue), queue |-> Tail(queue)]

\* processModerationQueue() run on the state st; t is what Date.now()
\* returns in this call and t + late what it returns in the nested call
RECURSIVE processModerationQueue(_, _, _)
processModerationQueue(st, t, late) ==
  LET cleared == [st EXCEPT !.timeout = ClearTimeout(st.timeout)]
  IN IF ThrottleOpen(t, cleared.lastModerationTime)
     THEN LET stamped == [cleared EXCEPT !.lastModerationTime = t]
              shifted ==
                IF Len(stamped.moderationQueue) = 0 THEN stamped
                ELSE LET s == Shift(stamped.moderationQueue)
                     IN [stamped EXCEPT
                           !.moderationQueue = s.queue,
                           !.dispatched =
                              Append(@, [request |-> s.request, at |-> t])]
          IN IF Len(shifted.moderationQueue) > 0
             THEN processModerationQueue(shifted, t + late, 0)
             ELSE shifted
     ELSE LET waitTime == ThrottlingMs - (t - cleared.lastModerationTime)
          IN [cleared EXCEPT !.timeout = Timer(t + waitTime)]

\* the state processModerationQueue works on
BotState ==
  [moderationQueue |-> moderationQueue,
   lastModerationTime |-> lastModerationTime,
   timeout |-> timeout,
   dispatched |-> dispatched]

SetBotState(st, t) ==
  /\ moderationQueue' = st.moderationQueue
  /\ lastModerationTime' = st.lastModerationTime
  /\ timeout' = st.timeout
  /\ dispatched' = st.dispatched
  /\ now' = t

\* enqueueForModeration(request); the synchronous run may last into the
\* next clock step (late)
enqueueForModeration(request, late) ==
  /\ arrived' = Append(arrived, request)
  /\ IF ~Allowed(request.chatId)
     THEN UNCHANGED <<now, moderationQueue, lastModerationTime, timeout, dispatched>>
     ELSE LET pushed == [BotState EXCEPT !.moderationQueue = Append(@, request)]
          IN IF pushed.timeout # NullTimeout
             THEN SetBotState(pushed, now)
             ELSE SetBotState(processModerationQueue(pushed, now, late),
                              IF now + late <= MaxTime THEN now + late ELSE now)

CanArrive == Len(arrived) < MaxRequests /\ now <= ArrivalDeadline

\* bot.on(message('text'), ...)
onTextMessage(chatId, text, late) ==
  /\ CanArrive
  /\ IF text = ""
     THEN UNCHANGED botVars
     ELSE enqueueForModeration(
            ModerationRequest(Len(arrived) + 1, chatId, text), late)
  /\ UNCHANGED <<verifierVars, telegramVars>>

\* bot.on(editedMessage('text'), ...)
onEditedMessage(chatId, text, late) ==
  /\ CanArrive
  /\ enqueueForModeration(
       ModerationRequest(Len(arrived) + 1, chatId, text), late)
  /\ UNCHANGED <<verifierVars, telegramVars>>

\* the callback of setTimeout in processModerationQueue
TimerFires(late) ==
  /\ timeout # NullTimeout
  /\ timeout.armed
  /\ now >= timeout.due
  /\ LET fired == [BotState EXCEPT !.timeout.armed = FALSE]
     IN SetBotState(processModerationQueue(fired, now, late),
                    IF now + late <= MaxTime THEN now + late ELSE now)
  /\ UNCHANGED arrived
  /\ UNCHANGED <<verifierVars, telegramVars>>

\* time passes; a timer fires less than one clock step after it is due
Tick ==
  /\ now < MaxTime
  /\ ~(timeout # NullTimeout /\ timeout.armed /\ now >= timeout.due + TickMs)
  /\ now' = now + TickMs
  /\ UNCHANGED <<moderationQueue, lastModerationTime, timeout, arrived, dispatched>>
  /\ UNCHANGED <<verifierVars, telegramVars>>

InitBot ==
  /\ now = StartTime
  /\ moderationQueue = <<>>
  /\ lastModerationTime = 0
  /\ timeout = NullTimeout
  /\ arrived = <<>>
  /\ dispatched = <<>>

(* ------------------------------------------------------------------ *)
(* telegram.ts: temporary posting rights (/post)                       *)
(* ------------------------------------------------------------------ *)
\* this.config.adminTimeoutMinutes; the timers of this class are counted
\* down in minutes
adminTimeoutMinutes == 3

UserA == 1

UserB == 2

UserC == 3

AdminUser == 4

\* this.config.admins
configAdmins == {AdminUser}

Users == {UserA, UserB, UserC, AdminUser}

\* variant: the timer set before is left running
ClearPrevious_Keep(running, handle) == running

\* if (this.admins.has(user.id)) clearTimeout(this.admins.get(user.id)!)
ClearPrevious(running, handle) ==
  IF handle # NullTimeout /\ handle.armed THEN running \ {handle.due}
  ELSE running

\* variant: no demotion is scheduled
Schedule_Nothing(running) == running

\* setTimeout(() => this.demoteAdmin(...), adminTimeoutMinutes * 60 * 1000)
Schedule(running) == running \cup {adminTimeoutMinutes}

\* variant: configured admins are handled like everybody else
IsConfiguredAdmin_Never(userId) == FALSE

\* this.config.admins.includes(user.id)
IsConfiguredAdmin(userId) == userId \in configAdmins

\* Telegram.handlePost, up to its first await: the promoteChatMember
\* request is issued in the same synchronous run as the timer is set
handlePost(userId) ==
  /\ IF IsConfiguredAdmin(userId)
     THEN UNCHANGED <<admins, timers, granted, sincePost>>
     ELSE /\ timers' = [timers EXCEPT
                          ![userId] = Schedule(ClearPrevious(@, admins[userId]))]
          /\ admins' = [admins EXCEPT ![userId] = Timer(adminTimeoutMinutes)]
          /\ granted' = [granted EXCEPT ![userId] = TRUE]
          /\ sincePost' = [sincePost EXCEPT ![userId] = 0]
  /\ UNCHANGED <<verifierVars, botVars, forwardVars>>

\* the setTimeout callback: Telegram.demoteAdmin(user.id, ...)
demoteAdmin(userId) ==
  /\ 0 \in timers[userId]
  /\ timers' = [timers EXCEPT ![userId] = @ \ {0}]
  /\ admins' = [admins EXCEPT ![userId] =
                  IF @ # NullTimeout /\ @.armed /\ @.due = 0
                  THEN [@ EXCEPT !.armed = FALSE] ELSE @]
  /\ granted' = [granted EXCEPT ![userId] = FALSE]
  /\ UNCHANGED sincePost
  /\ UNCHANGED <<verifierVars, botVars, forwardVars>>

\* a minute passes; a timer fires before another minute has passed
MinutePasses ==
  /\ \A u \in Users : 0 \notin timers[u]
  /\ timers' = [u \in Users |-> {r - 1 : r \in timers[u]}]
  /\ admins' = [u \in Users |->
                  IF admins[u] # NullTimeout /\ admins[u].armed
                  THEN [admins[u] EXCEPT !.due = @ - 1] ELSE admins[u]]
  /\ sincePost' = [u \in Users |->
                     IF sincePost[u] < adminTimeoutMinutes
                     THEN sincePost[u] + 1 ELSE sincePost[u]]
  /\ \E u \in Users : timers[u] # {} \/ sincePost[u] < adminTimeoutMinutes
  /\ UNCHANGED granted
  /\ UNCHANGED <<verifierVars, botVars, forwardVars>>

InitPost ==
  /\ admins = [u \in Users |-> NullTimeout]
  /\ timers = [u \in Users |-> {}]
  /\ granted = [u \in Users |-> FALSE]
  /\ sincePost = [u \in Users |-> adminTimeoutMinutes]

(* ------------------------------------------------------------------ *)
(* telegram.ts: forwarding messages to the channel, and their edits    *)
(* ------------------------------------------------------------------ *)
\* messages the users send to the bot
MaxMessages == 1

\* 'send' and 'cancel' handlers that are running at the same time
MaxInFlight == 2

\* edited-message events that edit a message on the channel
MaxEdits == 1

\* message_id of the next message posted to the channel, at the start
StartChannelId == 9

\* the users who write to the bot; in a private chat chat.id = from.id
Senders == {UserA, UserB}

MessageKinds == {"text", "sticker"}

NoMessage == [kind |-> "none"]

Message(chatId, messageId, kind) ==
  [kind |-> kind, chat |-> chatId, message_id |-> messageId]

\* Number.prototype.toString on a natural number
RECURSIVE NumberToString(_)
NumberToString(n) ==
  LET digit == <<"0","1","2","3","4","5","6","7","8","9">>[(n % 10) + 1]
  IN IF n < 10 THEN <<digit>> ELSE Append(NumberToString(n \div 10), digit)

DigitValue(c) ==
  CHOOSE v \in 0..9 : <<"0","1","2","3","4","5","6","7","8","9">>[v + 1] = c

NullId == [kind |-> "null"]

NaN == [kind |-> "NaN"]

Num(n) == [kind |-> "number", value |-> n]

RECURSIVE ParseDigits(_, _, _)
ParseDigits(s, i, acc) ==
  IF i <= Len(s) /\ s[i] \in Digits
  THEN ParseDigits(s, i + 1, 10 * acc + DigitValue(s[i]))
  ELSE acc

\* Number.parseInt on the content of a file: the leading digits, NaN when
\* there are none
ParseInt(s) ==
  IF Len(s) > 0 /\ s[1] \in Digits THEN Num(ParseDigits(s, 1, 0)) ELSE NaN

\* path.join(this.dbPath, chatId.toString())
ChatPath(chatId) == NumberToString(chatId)

\* path.join(this.dbPath, chatId.toString(), messageId.toString())
MessagePath(chatId, messageId) == <<NumberToString(chatId), NumberToString(messageId)>>

\* MessageDatabase.getChannelMessageId, the files being as they are when
\* the content is read
getChannelMessageId(chatId, messageId) ==
  IF ChatPath(chatId) \notin dbDirs THEN NullId
  ELSE IF MessagePath(chatId, messageId) \notin DOMAIN dbFiles THEN NullId
  ELSE ParseInt(dbFiles[MessagePath(chatId, messageId)])

\* variant: an id that was not found is used all the same
Falsy_Never(x) == FALSE

\* !channelMessageId
Falsy(x) == x.kind \in {"null", "NaN"} \/ (x.kind = "number" /\ x.value = 0)

\* formatMessage(...) returns null for a message without text or caption
Formattable(message) == message.kind = "text"

\* the id saved last for the pair, as the saves went
LastSaved(chatId, messageId) ==
  LET hits == {k \in 1..Len(saves) :
                 saves[k].chat = chatId /\ saves[k].message_id = messageId}
  IN IF hits = {} THEN NullId
     ELSE Num(saves[CHOOSE k \in hits : \A j \in hits : j <= k].channelMessageId)

RECURSIVE Sum(_, _)
Sum(f, S) ==
  IF S = {} THEN 0
  ELSE LET x == CHOOSE y \in S : TRUE IN f[x] + Sum(f, S \ {x})

\* the number of messages the bot has received
Received == Sum(received, Senders)

\* Telegram.handleMessage, up to its first await
handleMessage(userId, kind) ==
  /\ Received < MaxMessages
  /\ received' = [received EXCEPT ![userId] = @ + 1]
  /\ pendingMessageContexts' =
       [pendingMessageContexts EXCEPT
          ![userId] = Message(userId, received[userId] + 1, kind)]
  /\ cancelPressed' = [cancelPressed EXCEPT ![userId] = FALSE]
  /\ UNCHANGED <<inFlight, posted, nextChannelId, dbDirs, dbFiles, saves, edits>>
  /\ UNCHANGED <<verifierVars, botVars, postVars>>

\* a handler that waits for ctx.editMessageReplyMarkup(undefined)
Handler(kind, userId) ==
  [kind |-> kind, user |-> userId, pc |-> "markup",
   seen |-> pendingMessageContexts[userId],
   afterCancel |-> cancelPressed[userId],
   message |-> NoMessage, channelMessageId |-> 0]

\* the user presses 'send': Telegram.forwardMessage up to its first await
forwardMessageStart(userId) ==
  /\ received[userId] > 0
  /\ Cardinality(inFlight) < MaxInFlight
  /\ inFlight' = inFlight \cup {Handler("send", userId)}
  /\ UNCHANGED <<pendingMessageContexts, received, cancelPressed, posted,
                 nextChannelId, dbDirs, dbFiles, saves, edits>>
  /\ UNCHANGED <<verifierVars, botVars, postVars>>

\* the user presses 'cancel': Telegram.cancelMessage up to its first await
cancelMessageStart(userId) ==
  /\ received[userId] > 0
  /\ Cardinality(inFlight) < MaxInFlight
  /\ inFlight' = inFlight \cup {Handler("cancel", userId)}
  /\ cancelPressed' = [cancelPressed EXCEPT ![userId] = TRUE]
  /\ UNCHANGED <<pendingMessageContexts, received, posted,
                 nextChannelId, dbDirs, dbFiles, saves, edits>>
  /\ UNCHANGED <<verifierVars, botVars, postVars>>

\* an awaited request of the handler h fails: the catch block logs it
handlerThrows(h) ==
  /\ h \in inFlight
  /\ h.pc \in {"markup", "sending"}
  /\ inFlight' = inFlight \ {h}
  /\ UNCHANGED <<pendingMessageContexts, received, cancelPressed, posted,
                 nextChannelId, dbDirs, dbFiles, saves, edits>>
  /\ UNCHANGED <<verifierVars, botVars, postVars>>

\* Telegram.cancelMessage after its first await
cancelMessageResume(h) ==
  /\ h \in inFlight
  /\ h.kind = "cancel"
  /\ pendingMessageContexts' = [pendingMessageContexts EXCEPT ![h.user] = NoMessage]
  /\ inFlight' = inFlight \ {h}
  /\ UNCHANGED <<received, cancelPressed, posted,
                 nextChannelId, dbDirs, dbFiles, saves, edits>>
  /\ UNCHANGED <<verifierVars, botVars, postVars>>

\* Telegram.forwardMessage after its first await, up to the request that
\* puts the message on the channel
forwardMessageResume(h) ==
  /\ h \in inFlight
  /\ h.kind = "send"
  /\ h.pc = "markup"
  /\ LET messageContext == pendingMessageContexts[h.user]
     IN IF messageContext = NoMessage
        THEN /\ inFlight' = inFlight \ {h}
             /\ UNCHANGED <<pendingMessageContexts, posted, nextChannelId>>
        ELSE /\ pendingMessageContexts' =
                  [pendingMessageContexts EXCEPT ![h.user] = NoMessage]
             /\ posted' = Append(posted,
                                 [message |-> messageContext, by |-> h.user,
                                  seen |-> h.seen, afterCancel |-> h.afterCancel])
             /\ IF Formattable(messageContext)
                THEN /\ inFlight' = (inFlight \ {h})
                                      \cup {[h EXCEPT !.pc = "sending",
                                                      !.message = messageContext]}
                     /\ UNCHANGED nextChannelId
                ELSE /\ inFlight' = inFlight \ {h}
                     /\ nextChannelId' = nextChannelId + 1
  /\ UNCHANGED <<received, cancelPressed, dbDirs, dbFiles, saves, edits>>
  /\ UNCHANGED <<verifierVars, botVars, postVars>>

\* sendFormattedMessage has returned the channel message;
\* MessageDatabase.saveChannelMessageId runs up to its first await
sendFormattedMessageReturns(h) ==
  /\ h \in inFlight
  /\ h.pc = "sending"
  /\ nextChannelId' = nextChannelId + 1
  /\ inFlight' = (inFlight \ {h})
                   \cup {[h EXCEPT !.channelMessageId = nextChannelId,
                                   !.pc = IF ChatPath(h.message.chat) \in dbDirs
                                          THEN "writing" ELSE "mkdir"]}
  /\ UNCHANGED <<pendingMessageContexts, received, cancelPressed, posted,
                 dbDirs, dbFiles, saves, edits>>
  /\ UNCHANGED <<verifierVars, botVars, postVars>>

\* fs.promises.mkdir(chatPath) is carried out: it fails when the
\* directory has been made in the meantime
mkdirReturns(h) ==
  /\ h \in inFlight
  /\ h.pc = "mkdir"
  /\ IF ChatPath(h.message.chat) \in dbDirs
     THEN inFlight' = inFlight \ {h} /\ UNCHANGED dbDirs
     ELSE /\ dbDirs' = dbDirs \cup {ChatPath(h.message.chat)}
          /\ inFlight' = (inFlight \ {h}) \cup {[h EXCEPT !.pc = "writing"]}
  /\ UNCHANGED <<pendingMessageContexts, received, cancelPressed, posted,
                 nextChannelId, dbFiles, saves, edits>>
  /\ UNCHANGED <<verifierVars, botVars, postVars>>

\* fs.promises.writeFile opens the file, which is empty until it is written
writeFileOpens(h) ==
  /\ h \in inFlight
  /\ h.pc = "writing"
  /\ dbFiles' = (MessagePath(h.message.chat, h.message.message_id) :> <<>>) @@ dbFiles
  /\ inFlight' = (inFlight \ {h}) \cup {[h EXCEPT !.pc = "written"]}
  /\ UNCHANGED <<pendingMessageContexts, received, cancelPressed, posted,
                 nextChannelId, dbDirs, saves, edits>>
  /\ UNCHANGED <<verifierVars, botVars, postVars>>

\* fs.promises.writeFile(messagePath, channelMessageId.toString() + '\n')
writeFileReturns(h) ==
  /\ h \in inFlight
  /\ h.pc = "written"
  /\ dbFiles' = (MessagePath(h.message.chat, h.message.message_id)
                   :> (NumberToString(h.channelMessageId) \o <<"\n">>)) @@ dbFiles
  /\ saves' = Append(saves, [chat |-> h.message.chat,
                             message_id |-> h.message.message_id,
                             channelMessageId |-> h.channelMessageId])
  /\ inFlight' = inFlight \ {h}
  /\ UNCHANGED <<pendingMessageContexts, received, cancelPressed, posted,
                 nextChannelId, dbDirs, edits>>
  /\ UNCHANGED <<verifierVars, botVars, postVars>>

\* Telegram.handleEditedMessage for a message the user has sent before
handleEditedMessage(userId, messageId, kind) ==
  /\ messageId \in 1..received[userId]
  /\ Len(edits) < MaxEdits
  /\ LET channelMessageId == getChannelMessageId(userId, messageId)
     IN IF Falsy(channelMessageId) THEN UNCHANGED edits
        ELSE IF ~Formattable(Message(userId, messageId, kind)) THEN UNCHANGED edits
        ELSE edits' = Append(edits, [chat |-> userId, message_id |-> messageId,
                                     target |-> channelMessageId,
                                     saved |-> LastSaved(userId, messageId)])
  /\ UNCHANGED <<pendingMessageContexts, received, cancelPressed, inFlight,
                 posted, nextChannelId, dbDirs, dbFiles, saves>>
  /\ UNCHANGED <<verifierVars, botVars, postVars>>

InitForward ==
  /\ pendingMessageContexts = [u \in Senders |-> NoMessage]
  /\ received = [u \in Senders |-> 0]
  /\ cancelPressed = [u \in Senders |-> FALSE]
  /\ inFlight = {}
  /\ posted = <<>>
  /\ nextChannelId = StartChannelId
  /\ dbDirs = {}
  /\ dbFiles = <<>>
  /\ saves = <<>>
  /\ edits = <<>>

InitApp == InitBot /\ InitPost /\ InitForward

Init == file \in SmallFiles /\ InitVerifier /\ InitApp

InitBig == file \in BigFiles /\ InitVerifier /\ InitApp

\* variant: the loaded flag is raised before the read is awaited
LoadStart_FlagBeforeRead(c) ==
  /\ pc[c] = "idle"
  /\ \A d \in Calls : d < c => pc[d] # "idle"
  /\ pc' = [pc EXCEPT ![c] = IF loaded THEN "noop" ELSE "reading"]
  /\ loaded' = TRUE
  /\ ret' = NoReturn
  /\ UNCHANGED <<file, posts, indexedPosts, wordIndex, last>>
  /\ UNCHANGED appVars

\* variant: the early return on this.loaded is missing
LoadStart_NoEarlyReturn(c) ==
  /\ pc[c] = "idle"
  /\ \A d \in Calls : d < c => pc[d] # "idle"
  /\ pc' = [pc EXCEPT ![c] = "reading"]
  /\ ret' = NoReturn
  /\ UNCHANGED <<file, posts, indexedPosts, wordIndex, loaded, last>>
  /\ UNCHANGED appVars

\* load() up to its await: returns at once when already loaded,
\* otherwise issues the read and suspends
LoadStart(c) ==
  /\ pc[c] = "idle"
  /\ \A d \in Calls : d < c => pc[d] # "idle"
  /\ pc' = [pc EXCEPT ![c] = IF loaded THEN "noop" ELSE "reading"]
  /\ ret' = NoReturn
  /\ UNCHANGED <<file, posts, indexedPosts, wordIndex, loaded, last>>
  /\ UNCHANGED appVars

\* load() from the completion of readFile to its end
LoadResume(c) ==
  /\ pc[c] = "reading"
  /\ ret' = NoReturn
  /\ UNCHANGED <<file, last>>
  /\ UNCHANGED appVars
  /\ IF file.kind # "json"
     THEN /\ pc' = [pc EXCEPT ![c] = "failed"]
          /\ UNCHANGED <<posts, indexedPosts, wordIndex, loaded>>
     ELSE LET built == BuildIndex(file.records, indexedPosts, wordIndex)
          IN /\ posts' = file.records
             /\ indexedPosts' = built.indexedPosts
             /\ wordIndex' = built.wordIndex
             /\ loaded' = (loaded \/ built.ok)
             /\ pc' = [pc EXCEPT ![c] = IF built.ok THEN "built" ELSE "failed"]

findMatch(ocrText) ==
  /\ ret' = findMatchResult(ocrText)
  /\ UNCHANGED <<file, posts, indexedPosts, wordIndex, loaded, pc, last>>
  /\ UNCHANGED appVars

\* findMatch called by a caller that keeps the verdict for later comparison
findMatchAndKeep(ocrText) ==
  /\ ret' = findMatchResult(ocrText)
  /\ last' = ret'
  /\ UNCHANGED <<file, posts, indexedPosts, wordIndex, loaded, pc>>
  /\ UNCHANGED appVars

\* the environment replaces the corpus file
FileChange(f) ==
  /\ f # file
  /\ file' = f
  /\ ret' = NoReturn
  /\ UNCHANGED <<posts, indexedPosts, wordIndex, loaded, pc, last>>
  /\ UNCHANGED appVars

\* the free function looksLikeTrumpPost, called in any state of the verifier
looksLikeTrumpPost(text) ==
  /\ ret' = [kind |-> "looksLikeTrumpPost", text |-> text,
              result |-> looksLikeTrumpPostResult(text)]
  /\ UNCHANGED <<file, posts, indexedPosts, wordIndex, loaded, pc, last>>
  /\ UNCHANGED appVars

Next ==
  \/ \E c \in Calls : LoadStart(c)
  \/ \E c \in Calls : LoadResume(c)
  \/ \E q \in Queries : findMatch(q)
  \/ \E f \in Versions(file) : FileChange(f)
  \/ \E text \in Captions : looksLikeTrumpPost(text)

Spec == Init /\ [][Next]_vars

\* the queries put to the verifier over the large corpus
BigQueries == {QEmpty, QNoisyExact, QWeak, QUnknown}

\* the verifier over the large corpus
NextBig ==
  \/ \E c \in Calls : LoadStart(c)
  \/ \E c \in Calls : LoadResume(c)
  \/ \E q \in BigQueries : findMatch(q)
  \/ \E f \in Versions(file) : FileChange(f)

SpecBig == InitBig /\ [][NextBig]_vars

\* the verifier used by a caller that compares successive verdicts
NextHistory ==
  \/ \E c \in Calls : LoadStart(c)
  \/ \E c \in Calls : LoadResume(c)
  \/ \E q \in Queries : findMatchAndKeep(q)
  \/ \E f \in Versions(file) : FileChange(f)

SpecHistory == Init /\ [][NextHistory]_vars

(* ------------------------------------------------------------------ *)
(* normalizeText on its own                                            *)
(* ------------------------------------------------------------------ *)
\* fragments of raw text: a capital, the three misread characters' kinds,
\* punctuation, white space, and the two URL schemes
Pieces ==
  { <<"A">>, <<"x">>, <<"|">>, <<"0">>, <<"_">>, <<"!">>, <<" ">>, <<"\n">>,
    <<"h","t","t","p",":","/","/">>, <<"h","t","t","p","s",":","/","/">> }

RECURSIVE Concat(_)
Concat(ps) == IF Len(ps) = 0 THEN <<>> ELSE Head(ps) \o Concat(Tail(ps))

\* the texts normalizeText is called with
Texts == {Concat(ps) : ps \in UNION {[1..n -> Pieces] : n \in 0..MaxPieces}}

InitText ==
  /\ file = FileA
  /\ posts = <<>>
  /\ indexedPosts = <<>>
  /\ wordIndex = <<>>
  /\ loaded = FALSE
  /\ pc = [c \in Calls |-> "idle"]
  /\ last = NoReturn
  /\ InitApp
  /\ \E text \in Texts :
       ret = [kind |-> "normalizeText", text |-> text, results |-> <<>>]

\* normalizeText called with the text, then with its own previous result
normalizeTextPass ==
  /\ Len(ret.results) < MaxPasses
  /\ ret' = [ret EXCEPT !.results =
               Append(@, normalizeText(IF Len(@) = 0 THEN ret.text
                                       ELSE @[Len(@)]))]
  /\ UNCHANGED <<file, posts, indexedPosts, wordIndex, loaded, pc, last>>
  /\ UNCHANGED appVars

NextText == normalizeTextPass

SpecText == InitText /\ [][NextText]_vars

(* ------------------------------------------------------------------ *)
(* The moderation queue on its own                                     *)
(* ------------------------------------------------------------------ *)
InitQueue == file = FileA /\ InitVerifier /\ InitApp

NextQueue ==
  \/ \E chatId \in ChatIds, text \in MessageTexts, late \in {0, TickMs} :
       onTextMessage(chatId, text, late)
  \/ \E chatId \in ChatIds, late \in {0, TickMs} :
       onEditedMessage(chatId, "hi", late)
  \/ \E late \in {0, TickMs} : TimerFires(late)
  \/ Tick

SpecQueue == InitQueue /\ [][NextQueue]_vars

\* timers fire and time passes
SpecQueueFair ==
  /\ SpecQueue
  /\ WF_vars(\E late \in {0, TickMs} : TimerFires(late))
  /\ WF_vars(Tick)

(* ------------------------------------------------------------------ *)
(* The Telegram class on its own                                       *)
(* ------------------------------------------------------------------ *)
InitTelegram == file = FileA /\ InitVerifier /\ InitApp

NextPost ==
  \/ \E userId \in Users : handlePost(userId)
  \/ \E userId \in Users : demoteAdmin(userId)
  \/ MinutePasses

SpecPost == InitTelegram /\ [][NextPost]_vars

\* timers fire and time passes
SpecPostFair ==
  /\ SpecPost
  /\ \A userId \in Users : WF_vars(demoteAdmin(userId))
  /\ WF_vars(MinutePasses)

NextForward ==
  \/ \E userId \in Senders, kind \in MessageKinds : handleMessage(userId, kind)
  \/ \E userId \in Senders : forwardMessageStart(userId)
  \/ \E userId \in Senders : cancelMessageStart(userId)
  \/ \E h \in inFlight : handlerThrows(h)
  \/ \E h \in inFlight : cancelMessageResume(h)
  \/ \E h \in inFlight : forwardMessageResume(h)
  \/ \E h \in inFlight : sendFormattedMessageReturns(h)
  \/ \E h \in inFlight : mkdirReturns(h)
  \/ \E h \in inFlight : writeFileOpens(h)
  \/ \E h \in inFlight : writeFileReturns(h)
  \/ \E userId \in Senders, messageId \in 1..MaxMessages, kind \in MessageKinds :
       handleEditedMessage(userId, messageId, kind)

SpecForward == InitTelegram /\ [][NextForward]_vars

(* ------------------------------------------------------------------ *)
(* Properties                                                          *)
(* ------------------------------------------------------------------ *)
Returned == ret.kind = "findMatch"

ReturnedVerdict == ret.kind = "findMatch" /\ ret.status = "ok"

\* the significant tokens of the query findMatch has just answered
RetWords == extractSignificantWords(normalizeText(ret.ocrText))

\* post is one of the records of posts
IsCorpusRecord(post) == \E i \in 1..Len(posts) : posts[i] = post

\* token occurs in some record of posts
OccursInCorpus(token) ==
  \E i \in 1..Len(posts) :
    /\ "content" \in DOMAIN posts[i]
    /\ InSeq(token, extractSignificantWords(normalizeText(posts[i].content)))

\* the scores of the shortlist for the query findMatch has just answered,
\* in rank order
RetScores ==
  LET normalizedOcr == normalizeText(ret.ocrText)
      cands == sortedCandidates(extractSignificantWords(normalizedOcr))
  IN [k \in 1..Len(cands) |->
        [index |-> cands[k].index,
         similarity |-> Similarity(normalizedOcr, cands[k].index)]]

(* C1: findMatch called while no load() has completed successfully (none
   started, one in flight, or one failed) throws the not-loaded error and
   returns no verdict. *)
C1_NotLoadedUntilBuilt ==
  (Returned /\ \A c \in Calls : pc[c] # "built")
    => /\ ret.status = "error"
       /\ ret.error = "NotLoaded"
       /\ "verified" \notin DOMAIN ret

C1_Witness ==
  /\ Returned
  /\ ret.status = "error"
  /\ \E c \in Calls : pc[c] = "failed"
  /\ \E c \in Calls : pc[c] = "reading"

(* C2: every verdict with verified = true has similarity >= 0.70 and a post
   that is a record of the loaded corpus. *)
C2_VerifiedHasCorpusPost ==
  (ReturnedVerdict /\ ret.verified)
    => /\ 10 * ret.similarity.num >= 7 * ret.similarity.den
       /\ IsCorpusRecord(ret.post)

(* C3: on a loaded verifier findMatch returns verified = true exactly when
   some shortlisted candidate scores at least 0.70; a score of exactly 0.70
   verifies and an empty shortlist never does. *)
C3_VerifiedIffBestQualifies ==
  ReturnedVerdict
    => LET scores == RetScores
       IN ret.verified <=>
            \E k \in 1..Len(scores) :
              10 * scores[k].similarity.num >= 7 * scores[k].similarity.den

C3_Witness ==
  /\ ReturnedVerdict
  /\ ret.verified
  /\ ret.similarity = [num |-> 7, den |-> 10]

(* C4: on a loaded verifier a query with no significant token, or none of
   whose significant tokens occurs in a corpus record, gets exactly
   verified = false, post = null, similarity = 0, and nothing is scored. *)
C4_NoSharedTokenEmptyVerdict ==
  (ReturnedVerdict
     /\ LET words == RetWords
        IN \A k \in 1..Len(words) : ~OccursInCorpus(words[k]))
    => ret = Verdict(ret.ocrText, FALSE, NullPost, Zero, 0)

(* C5: on a loaded verifier, when the shortlist is not empty and no
   candidate reaches 0.70, findMatch returns verified = false, post = the
   record of the best candidate (never null), similarity = its score. *)
C5_BelowThresholdKeepsBest ==
  ReturnedVerdict
    => LET scores == RetScores
       IN (/\ Len(scores) > 0
           /\ \A k \in 1..Len(scores) :
                10 * scores[k].similarity.num < 7 * scores[k].similarity.den)
          => /\ ~ret.verified
             /\ IsCorpusRecord(ret.post)
             /\ \E k \in 1..Len(scores) :
                  /\ ret.post = PostAt(scores[k].index)
                  /\ ret.similarity = scores[k].similarity
                  /\ \A j \in 1..Len(scores) :
                       ~FracGT(scores[j].similarity, ret.similarity)

(* C6: once the verifier is loaded findMatch never throws, whatever the
   query and whatever load() calls came before; the not-loaded error is the
   only error findMatch ever throws. *)
C6_OnlyNotLoadedThrows ==
  Returned
    => /\ loaded => ret.status = "ok"
       /\ ret.status = "error" => ret.error = "NotLoaded"

C6_Witness ==
  /\ ReturnedVerdict
  /\ ret.ocrText \in {QEmpty, QStopOnly}
  /\ ~ret.verified
  /\ \E c \in Calls : pc[c] = "failed"

(* C7 as stated: a query whose normalized text equals the normalized
   content of a corpus record, and has a significant token, is verified with
   a matched record and similarity >= 0.95, however many records share its
   tokens. *)
C7_ExactQuoteAlwaysVerified ==
  (ReturnedVerdict
     /\ Len(RetWords) > 0
     /\ LET normalizedOcr == normalizeText(ret.ocrText)
        IN \E i \in 1..Len(posts) :
             /\ "content" \in DOMAIN posts[i]
             /\ normalizeText(posts[i].content) = normalizedOcr)
    => /\ ret.verified
       /\ IsCorpusRecord(ret.post)
       /\ 100 * ret.similarity.num >= 95 * ret.similarity.den

(* C7 amended: a query whose normalized text equals the indexed normalized
   content of a shortlisted record is verified with similarity >= 0.95, and
   post is what posts holds at a shortlisted position with that score. *)
C7_ShortlistedExactQuoteVerified ==
  ReturnedVerdict
    => LET normalizedOcr == normalizeText(ret.ocrText)
           scores == RetScores
       IN (\E k \in 1..Len(scores) :
             indexedPosts[scores[k].index + 1].normalizedContent = normalizedOcr)
          => /\ ret.verified
             /\ 100 * ret.similarity.num >= 95 * ret.similarity.den
             /\ \E k \in 1..Len(scores) :
                  /\ ret.post = PostAt(scores[k].index)
                  /\ ret.similarity = scores[k].similarity

C7_Witness ==
  /\ ReturnedVerdict
  /\ ret.ocrText = QWeak
  /\ ret.verified
  /\ Len(findCandidates(RetWords)) > MAX_CANDIDATES

(* C8: a load() call that fails leaves posts, indexedPosts, wordIndex and
   loaded exactly as they were before it resumed. *)
C8_FailedLoadChangesNothing ==
  [][\A c \in Calls :
       (pc[c] = "reading" /\ pc'[c] = "failed") => UNCHANGED index]_vars

(* C9: of the load() calls on one verifier at most one builds the index;
   every other call leaves the index alone. *)
C9_OneLoadBuilds == Cardinality({c \in Calls : pc[c] = "built"}) <= 1

(* C10: a load() call started after a load() has succeeded returns without
   reading the corpus and changes nothing, then and later. *)
C10_LoadAfterSuccessIsNoop ==
  [][\A c \in Calls :
       /\ (pc[c] = "idle" /\ pc'[c] # "idle" /\ \E d \in Calls : pc[d] = "built")
            => (pc'[c] = "noop" /\ UNCHANGED index)
       /\ pc[c] = "noop" => pc'[c] = "noop"]_vars

C10_Witness ==
  /\ loaded
  /\ \E c \in Calls : pc[c] = "noop"

(* C11: from the moment the verifier is loaded, posts, indexedPosts,
   wordIndex and loaded never change again, whichever call takes a step,
   a load() that was already in flight included. *)
C11_LoadedIndexNeverChanges == [][loaded => UNCHANGED index]_vars

(* C12: while the verifier is loaded, two findMatch calls with the same
   query text return the same verified, post and similarity, whatever load()
   calls run between them. *)
C12_SameQuerySameVerdict ==
  [][(/\ last.kind = "findMatch"
      /\ last.status = "ok"
      /\ ret'.kind = "findMatch"
      /\ ret'.status = "ok"
      /\ ret'.ocrText = last.ocrText)
     => /\ ret'.verified = last.verified
        /\ ret'.post = last.post
        /\ ret'.similarity = last.similarity]_vars

(* C13: looksLikeTrumpPost returns true exactly when the text, compared
   without regard to letter case, contains '@realdonaldtrump',
   'donald j. trump' or 'donald j trump'; the answer is the same whether or
   not the verifier is loaded. *)
C13_LooksLikeIffMarker ==
  ret.kind = "looksLikeTrumpPost"
    => (ret.result <=>
          \E marker \in TRUMP_MARKERS :
            \E i \in 1..(Len(ret.text) - Len(marker) + 1) :
              \A k \in 1..Len(marker) :
                ToLowerChar(ret.text[i + k - 1]) = marker[k])

C13_Witness ==
  /\ ret.kind = "looksLikeTrumpPost"
  /\ ret.text = CapHandle
  /\ ret.result
  /\ ~loaded
  /\ \E c \in Calls : pc[c] = "failed"

(* C14: in every reachable state each posting list of wordIndex is strictly
   ascending, so no posting list names a record position twice. *)
C14_PostingsStrictlyAscending ==
  \A w \in 1..Len(wordIndex) :
    \A i, j \in 1..Len(wordIndex[w].postings) :
      i < j => wordIndex[w].postings[i] < wordIndex[w].postings[j]

(* C15: whenever the verifier is loaded, indexedPosts is aligned with posts:
   same length, entry i carries index i and the normalized content and
   significant tokens of posts[i], and position i is in the posting list of
   token t exactly when t is one of those tokens. *)
C15_IndexAlignedWithPosts ==
  loaded
    => /\ Len(indexedPosts) = Len(posts)
       /\ \A i \in 1..Len(posts) :
            /\ "content" \in DOMAIN posts[i]
            /\ indexedPosts[i].index = i - 1
            /\ indexedPosts[i].normalizedContent = normalizeText(posts[i].content)
            /\ indexedPosts[i].words
                 = extractSignificantWords(normalizeText(posts[i].content))
       /\ \A w \in 1..Len(wordIndex) :
            \A p \in 0..(Len(indexedPosts) - 1) :
              InSeq(p, wordIndex[w].postings)
                <=> InSeq(wordIndex[w].word, indexedPosts[p + 1].words)
       /\ \A i \in 1..Len(indexedPosts) :
            \A k \in 1..Len(indexedPosts[i].words) :
              HasWord(wordIndex, indexedPosts[i].words[k])

(* C16: on a loaded verifier findCandidates maps each record position to
   the number of query tokens that are significant tokens of that record,
   and has an entry for a position exactly when that number is at least 1. *)
C16_CandidateCountsSharedTokens ==
  ReturnedVerdict
    => LET words == RetWords
           cs == findCandidates(words)
           shared(p) ==
             IF p < Len(posts) /\ "content" \in DOMAIN posts[p + 1]
             THEN LET tokens == extractSignificantWords(
                                  normalizeText(posts[p + 1].content))
                  IN Cardinality({k \in 1..Len(words) : InSeq(words[k], tokens)})
             ELSE 0
       IN /\ \A e \in 1..Len(cs) : cs[e].count = shared(cs[e].index)
          /\ \A p \in 0..(Len(posts) - 1) :
               shared(p) >= 1 => \E e \in 1..Len(cs) : cs[e].index = p

(* C17: findMatch scores at most 50 candidates, and the shortlist is a top
   set by shared-token count: no candidate left out has a larger count than
   a candidate kept. *)
C17_ShortlistIsTopFifty ==
  ReturnedVerdict
    => LET words == RetWords
           cs == findCandidates(words)
           kept == sortedCandidates(words)
           keptAt(p) == \E k \in 1..Len(kept) : kept[k].index = p
       IN /\ ret.scored <= 50
          /\ Len(kept) <= 50
          /\ \A k \in 1..Len(kept) :
               \E e \in 1..Len(cs) : cs[e] = kept[k]
          /\ Len(kept) = (IF Len(cs) < 50 THEN Len(cs) ELSE 50)
          /\ \A e \in 1..Len(cs) :
               ~keptAt(cs[e].index)
                 => \A k \in 1..Len(kept) : cs[e].count <= kept[k].count

C17_Witness ==
  /\ ReturnedVerdict
  /\ ret.ocrText = QNoisyExact
  /\ ret.scored = 50
  /\ file = FileBigFirst
  /\ LET cs == findCandidates(RetWords)
     IN /\ Len(cs) > 50
        /\ \E e, f \in 1..Len(cs) : cs[e].count < cs[f].count

(* C18 as stated: two queries with the same set of significant tokens, in
   whatever order the tokens occur, get the same ordered shortlist of
   candidate positions. *)
C18_TokenSetFixesShortlist ==
  ReturnedVerdict
    => LET words == RetWords
           kept == sortedCandidates(words)
       IN \A q \in Queries :
            LET other == extractSignificantWords(normalizeText(q))
                keptOther == sortedCandidates(other)
            IN {other[k] : k \in 1..Len(other)} = {words[k] : k \in 1..Len(words)}
                 => [k \in 1..Len(keptOther) |-> keptOther[k].index]
                      = [k \in 1..Len(kept) |-> kept[k].index]

(* C18 amended: candidates with equal shared-token counts are ranked by the
   first query token, in order of first occurrence in the text, whose
   posting list names them, and then by their place in that posting list;
   the candidates cut from the shortlist come after the ones kept in that
   same order. *)
C18_TiesInFirstEncounterOrder ==
  ReturnedVerdict
    => LET words == RetWords
           cs == findCandidates(words)
           kept == sortedCandidates(words)
           names(w, p) == InSeq(p, GetPostings(wordIndex, words[w]))
           firstWord(p) ==
             CHOOSE w \in 1..Len(words) :
               names(w, p) /\ \A v \in 1..(w - 1) : ~names(v, p)
           firstPlace(p) ==
             LET postings == GetPostings(wordIndex, words[firstWord(p)])
             IN CHOOSE i \in 1..Len(postings) :
                  postings[i] = p /\ \A j \in 1..(i - 1) : postings[j] # p
           before(a, b) ==
             \/ a.count > b.count
             \/ /\ a.count = b.count
                /\ \/ firstWord(a.index) < firstWord(b.index)
                   \/ /\ firstWord(a.index) = firstWord(b.index)
                      /\ firstPlace(a.index) < firstPlace(b.index)
       IN /\ \A j, k \in 1..Len(kept) : j < k => before(kept[j], kept[k])
          /\ \A e \in 1..Len(cs) :
               (\A k \in 1..Len(kept) : kept[k].index # cs[e].index)
                 => \A k \in 1..Len(kept) : before(kept[k], cs[e])

C18_Witness ==
  /\ ReturnedVerdict
  /\ LET kept == sortedCandidates(RetWords)
     IN \E j, k \in 1..Len(kept) :
          /\ j < k
          /\ kept[j].count = kept[k].count
          /\ kept[j].index > kept[k].index

(* C19: when several shortlisted candidates attain the maximum similarity,
   findMatch returns the one that comes first in rank order. *)
C19_FirstOfEqualBestWins ==
  ReturnedVerdict
    => LET scores == RetScores
       IN Len(scores) > 0
            => \E k \in 1..Len(scores) :
                 /\ ret.similarity = scores[k].similarity
                 /\ ret.post = PostAt(scores[k].index)
                 /\ \A j \in 1..Len(scores) :
                      ~FracGT(scores[j].similarity, scores[k].similarity)
                 /\ \A j \in 1..(k - 1) :
                      FracGT(scores[k].similarity, scores[j].similarity)

C19_Witness ==
  /\ ReturnedVerdict
  /\ LET scores == RetScores
     IN \E j, k \in 1..Len(scores) :
          /\ j < k
          /\ scores[j].similarity = ret.similarity
          /\ scores[k].similarity = ret.similarity
          /\ PostAt(scores[j].index) # PostAt(scores[k].index)
          /\ ret.post = PostAt(scores[j].index)

(* C20: normalizeText is idempotent: applied to its own result it returns
   that result unchanged. *)
C20_NormalizeIdempotent ==
  ret.kind = "normalizeText"
    => \A k \in 2..Len(ret.results) : ret.results[k] = ret.results[1]

C20_Witness ==
  /\ ret.kind = "normalizeText"
  /\ Len(ret.results) >= 2
  /\ ret.results[1] # ret.text
  /\ ret.results[1] # <<>>
  /\ \E i \in 1..Len(ret.text) : UrlMatchEnd(ret.text, i) > 0
  /\ \E i \in 1..Len(ret.text) : ret.text[i] = "|"

(* C21: the result of normalizeText holds only lower-case letters and
   digits separated by single spaces: no other character, no leading,
   trailing or doubled space, and no '|', '0' or '1'. *)
C21_OutputAlphanumericSingleSpaced ==
  ret.kind = "normalizeText"
    => \A k \in 1..Len(ret.results) :
         LET out == ret.results[k]
         IN /\ \A i \in 1..Len(out) :
                 \/ \E j \in 1..26 : out[i] = LowerSeq[j]
                 \/ out[i] \in Digits \ {"0", "1"}
                 \/ out[i] = " "
            /\ Len(out) > 0 => out[1] # " " /\ out[Len(out)] # " "
            /\ \A i \in 1..(Len(out) - 1) : ~(out[i] = " " /\ out[i + 1] = " ")

(* C22: the moderation queue is FIFO and exactly-once: the requests handed
   to processModerationRequest, followed by the ones still queued, are the
   requests enqueued from allowed chats, in the order they were enqueued. *)
C22_QueueFifoExactlyOnce ==
  LET accepted == SelectSeq(arrived, LAMBDA r : r.chatId \in ALLOWED_CHAT_IDS)
  IN [k \in 1..Len(dispatched) |-> dispatched[k].request] \o moderationQueue
       = accepted

C22_Witness ==
  /\ Len(dispatched) >= 2
  /\ Len(moderationQueue) >= 1
  /\ \E k \in 1..Len(arrived) : arrived[k].chatId \notin ALLOWED_CHAT_IDS

(* C23: the clock times of two consecutive dispatches differ by more than
   moderationThrottlingSeconds * 1000 ms. *)
C23_DispatchesThrottled ==
  \A k \in 1..(Len(dispatched) - 1) :
    dispatched[k + 1].at - dispatched[k].at > moderationThrottlingSeconds * 1000

C23_Witness ==
  /\ Len(dispatched) >= 2
  /\ dispatched[2].at - dispatched[1].at = moderationThrottlingSeconds * 1000 + TickMs
  /\ dispatched[2].request.messageId = dispatched[1].request.messageId + 1
  /\ Len(moderationQueue) >= 1

(* C24: no moderation request is stranded: whenever the queue is not empty
   a throttling timer is pending, and, timers firing and time passing,
   every request enqueued from an allowed chat is eventually dispatched. *)
C24_NoRequestStranded ==
  /\ [](moderationQueue # <<>> => timeout # NullTimeout /\ timeout.armed)
  /\ \A id \in 1..MaxRequests :
       (\E k \in 1..Len(arrived) :
          arrived[k].messageId = id /\ arrived[k].chatId \in ALLOWED_CHAT_IDS)
         ~> (\E k \in 1..Len(dispatched) : dispatched[k].request.messageId = id)

C24_Witness ==
  /\ Len(moderationQueue) >= 2
  /\ Len(dispatched) >= 1
  /\ timeout # NullTimeout
  /\ timeout.armed
  /\ now < timeout.due

(* C25: a message from a chat that is not in ALLOWED_CHAT_IDS is never
   queued and never dispatched, and receiving it leaves moderationQueue,
   lastModerationTime and the pending timer unchanged. *)
C25_OtherChatsLeftAlone ==
  /\ [](/\ \A k \in 1..Len(moderationQueue) :
             moderationQueue[k].chatId \in ALLOWED_CHAT_IDS
        /\ \A k \in 1..Len(dispatched) :
             dispatched[k].request.chatId \in ALLOWED_CHAT_IDS)
  /\ [][(/\ Len(arrived') = Len(arrived) + 1
         /\ arrived'[Len(arrived')].chatId \notin ALLOWED_CHAT_IDS)
          => UNCHANGED <<moderationQueue, lastModerationTime, timeout, dispatched>>]_vars

C25_Witness ==
  /\ Len(arrived) >= 2
  /\ arrived[Len(arrived)].chatId \notin ALLOWED_CHAT_IDS
  /\ Len(moderationQueue) >= 1
  /\ timeout # NullTimeout
  /\ Len(dispatched) >= 1

(* C26 as stated: a user who is not a configured admin and has been
   promoted through /post has exactly one demotion timer pending and is
   eventually demoted; configured admins are never promoted or demoted. *)
C26_RightsAlwaysExpire ==
  /\ [](\A u \in Users :
          /\ granted[u] => Cardinality(timers[u]) = 1
          /\ u \in configAdmins => ~granted[u] /\ timers[u] = {})
  /\ \A u \in Users : granted[u] ~> ~granted[u]

(* C26 amended: such a user has exactly one demotion timer pending, and
   is eventually demoted or issues /post again, which restarts the
   window; configured admins are never promoted or demoted. *)
C26_RightsExpireUnlessRenewed ==
  /\ [](\A u \in Users :
          /\ granted[u] => Cardinality(timers[u]) = 1
          /\ u \in configAdmins => ~granted[u] /\ timers[u] = {})
  /\ \A u \in Users : granted[u] ~> (~granted[u] \/ sincePost[u] = 0)

C26_Witness ==
  /\ granted[UserA]
  /\ sincePost[UserA] = 1
  /\ timers[UserA] = {adminTimeoutMinutes - 1}
  /\ ~granted[UserB]
  /\ admins[UserB] # NullTimeout
  /\ ~admins[UserB].armed

(* C27: a demotion of a user by the timer happens no earlier than
   adminTimeoutMinutes after that user's most recent /post. *)
C27_DemotionAfterFullWindow ==
  [][\A u \in Users :
       (0 \in timers[u] /\ 0 \notin timers'[u])
         => sincePost[u] >= adminTimeoutMinutes]_vars

C27_Witness ==
  /\ granted[UserA]
  /\ 0 \in timers[UserA]
  /\ sincePost[UserA] = adminTimeoutMinutes
  /\ admins[UserA].armed

(* C28: each message is put on the channel at most once, by a 'send' press
   of its sender made while it was that user's pending message, and never
   by a 'send' press that followed a 'cancel' press for it. *)
C28_PostedOnceOnSend ==
  \A i \in 1..Len(posted) :
    /\ \A j \in 1..Len(posted) : posted[j].message = posted[i].message => j = i
    /\ posted[i].by = posted[i].message.chat
    /\ posted[i].seen = posted[i].message
    /\ ~posted[i].afterCancel

(* C29: an edited-message event edits a channel message only if an id was
   saved for the pair (chat id, message id) by a formatted post that
   succeeded, and it edits the message with the id saved last for the
   pair. *)
C29_EditTargetsSavedId ==
  \A i \in 1..Len(edits) :
    /\ edits[i].saved # NullId
    /\ edits[i].target = edits[i].saved
    /\ \E k \in 1..Len(posted) :
         /\ posted[k].message.chat = edits[i].chat
         /\ posted[k].message.message_id = edits[i].message_id
         /\ posted[k].message.kind = "text"

C29_Witness ==
  /\ Len(edits) >= 1
  /\ edits[1].target = Num(StartChannelId)
  /\ edits[1].saved = edits[1].target
  /\ dbFiles[MessagePath(edits[1].chat, edits[1].message_id)]
       = NumberToString(StartChannelId) \o <<"\n">>

====
